---- MODULE Spec2Model ----
(***************************************************************************)
(* FluxBill backend: the billing routes over the relational store          *)
(* (billing_route.py, models.py), the assistant's command planner and the  *)
(* voice endpoint (main.py).                                               *)
(*                                                                         *)
(* Timestamps filled by default_factory (Customer.created_at,              *)
(* Payment.paid_at) are not modelled: no route reads them.                 *)
(***************************************************************************)
EXTENDS Integers, Sequences, FiniteSets, TLC

\* ------------------------------------------------------------------------
\* Bounds
\* ------------------------------------------------------------------------
\* Cap on the number of rows of the payment table (pay_invoice adds one row
\* per successful call, without limit).
MaxPayments == 2

\* ------------------------------------------------------------------------
\* models.py: rows and defaults
\* ------------------------------------------------------------------------
\* Invoice.method default; the source's default is the one-character string
\* U+2014 (em dash), written "-" here.
DefaultMethod == "-"

\* Request inputs enumerated for the routes.
InvoiceIdInputs == {"INV-1"}
CustomerIdInputs == {"CUST-1", "CUST-901"}
PayIdInputs == {"INV-0", "INV-1", "INV-10428", "INV-10429", "INV-10430"}
MethodInputs == {"UPI", "Card"}

InvoiceInputs ==
  [id : InvoiceIdInputs, customer : {"Acme"}, amount : {100, 250},
   currency : {"INR"}, status : {"sent", "paid"}, due : {<<2026, 1, 31>>},
   created : {<<2026, 1, 1>>}, method : {DefaultMethod}]

CustomerInputs ==
  [id : CustomerIdInputs, name : {"Acme", "Zen"}, tier : {"SMB"},
   invoices : {0}, status : {"new"}]

\* The demo dataset of seed_if_empty.
SeedInvoices ==
  { [id |-> "INV-10428", customer |-> "Apex Retail Pvt Ltd", amount |-> 48900,
     currency |-> "INR", status |-> "paid", due |-> <<2025, 12, 2>>,
     created |-> <<2025, 11, 25>>, method |-> "UPI"],
    [id |-> "INV-10429", customer |-> "BlueSky Logistics", amount |-> 125000,
     currency |-> "INR", status |-> "overdue", due |-> <<2025, 12, 8>>,
     created |-> <<2025, 11, 28>>, method |-> "Card"],
    [id |-> "INV-10430", customer |-> "Nimbus Clinics", amount |-> 76000,
     currency |-> "INR", status |-> "sent", due |-> <<2025, 12, 20>>,
     created |-> <<2025, 12, 1>>, method |-> "NetBanking"] }

SeedSubscriptions ==
  { [id |-> "SUB-2201", plan |-> "Growth", customer |-> "Nimbus Clinics",
     mrr |-> 6999, status |-> "active"],
    [id |-> "SUB-2202", plan |-> "Starter", customer |-> "Orchid Education",
     mrr |-> 1999, status |-> "active"] }

SeedCustomers ==
  { [id |-> "CUST-901", name |-> "Apex Retail Pvt Ltd", tier |-> "Mid-market",
     invoices |-> 12, status |-> "healthy"],
    [id |-> "CUST-902", name |-> "BlueSky Logistics", tier |-> "Enterprise",
     invoices |-> 21, status |-> "at_risk"] }

VARIABLES
  invoices,       \* table invoice: set of rows
  customers,      \* table customer
  subscriptions,  \* table subscription
  payments,       \* table payment
  inserted,       \* history: the invoice rows as they were inserted
  prev,           \* history: the store before the last request
  prevOp,         \* history: the route of the request before the last one
  resp,           \* the last request and its response
  creq,           \* interleaved create requests: each client's position
  OPENROUTER_API_KEY, \* main.py: the credential read at process start
  reply,          \* the remote model's HTTP response to plan_command
  outcome,        \* what plan_command returned or raised
  vreq,           \* voice requests: each request's position and response
  files           \* the temporary audio files that exist on disk

storeVars == <<invoices, customers, subscriptions, payments>>
histVars == <<inserted, prev, prevOp, resp>>
planVars == <<OPENROUTER_API_KEY, reply, outcome>>
voiceVars == <<vreq, files>>
vars ==
  <<invoices, customers, subscriptions, payments, inserted, prev, prevOp, resp,
    creq, OPENROUTER_API_KEY, reply, outcome, vreq, files>>

Store ==
  [invoices |-> invoices, customers |-> customers,
   subscriptions |-> subscriptions, payments |-> payments]

EmptyStore ==
  [invoices |-> {}, customers |-> {}, subscriptions |-> {}, payments |-> {}]

\* session.get(Model, id): the rows of the table with that primary key.
Get(table, id) == {r \in table : r.id = id}

Ids(table) == {r.id : r \in table}

\* The primary-key constraint of a table.
UniqueIds(table) == \A r, s \in table : r.id = s.id => r = s

\* Payment.id is assigned by the database: the next integer key.
NextPaymentId == Cardinality(payments) + 1

Response(op, id, method, status, seeded) ==
  [op |-> op, id |-> id, method |-> method, status |-> status, seeded |-> seeded]

\* The history variables every request updates.
Record(r) ==
  /\ prev' = Store
  /\ prevOp' = resp.op
  /\ resp' = r

\* create_invoice as an upsert: an existing row is replaced, no 409.
create_invoice_Upsert(inv) ==
  /\ invoices' = (invoices \ Get(invoices, inv.id)) \cup {inv}
  /\ inserted' = inserted \cup {inv}
  /\ Record(Response("create_invoice", inv.id, "", 200, FALSE))
  /\ UNCHANGED <<customers, subscriptions, payments>>

\* POST /api/invoices
create_invoice(inv) ==
  /\ IF Get(invoices, inv.id) # {}
       THEN /\ Record(Response("create_invoice", inv.id, "", 409, FALSE))
            /\ UNCHANGED <<storeVars, inserted>>
       ELSE /\ invoices' = invoices \cup {inv}
            /\ inserted' = inserted \cup {inv}
            /\ Record(Response("create_invoice", inv.id, "", 200, FALSE))
            /\ UNCHANGED <<customers, subscriptions, payments>>

\* pay_invoice without the line inv.method = method.
PaidInvoice_KeepsMethod(inv, method) == [inv EXCEPT !.status = "paid"]

\* The invoice row as pay_invoice rewrites it.
PaidInvoice(inv, method) == [inv EXCEPT !.status = "paid", !.method = method]

\* The payment row built with the model's default method.
NewPayment_DefaultMethod(pid, invoice_id, inv, method) ==
  [id |-> pid, invoice_id |-> invoice_id, amount |-> inv.amount, method |-> "UPI"]

\* pay_invoice without the 404 test: the payment row is added for any id.
pay_invoice_NoLookup(invoice_id, method) ==
  /\ Cardinality(payments) < MaxPayments
  /\ invoices' = {IF r.id = invoice_id THEN [r EXCEPT !.status = "paid", !.method = method]
                                       ELSE r : r \in invoices}
  /\ payments' = payments \cup
       {[id |-> NextPaymentId, invoice_id |-> invoice_id, amount |-> 0, method |-> method]}
  /\ Record(Response("pay_invoice", invoice_id, method, 200, FALSE))
  /\ UNCHANGED <<customers, subscriptions, inserted>>

\* The payment row pay_invoice adds.
NewPayment(pid, invoice_id, inv, method) ==
  [id |-> pid, invoice_id |-> invoice_id, amount |-> inv.amount, method |-> method]

\* POST /api/invoices/{invoice_id}/pay
pay_invoice(invoice_id, method) ==
  IF Get(invoices, invoice_id) = {}
    THEN /\ Record(Response("pay_invoice", invoice_id, method, 404, FALSE))
         /\ UNCHANGED <<storeVars, inserted>>
    ELSE LET inv == CHOOSE r \in Get(invoices, invoice_id) : TRUE
             paid == PaidInvoice(inv, method)
         IN  /\ Cardinality(payments) < MaxPayments
             /\ invoices' = (invoices \ {inv}) \cup {paid}
             /\ payments' = payments \cup
                              {NewPayment(NextPaymentId, invoice_id, paid, method)}
             /\ Record(Response("pay_invoice", invoice_id, method, 200, FALSE))
             /\ UNCHANGED <<customers, subscriptions, inserted>>

\* POST /api/customers
create_customer(c) ==
  /\ IF Get(customers, c.id) # {}
       THEN /\ Record(Response("create_customer", c.id, "", 409, FALSE))
            /\ UNCHANGED <<storeVars, inserted>>
       ELSE /\ customers' = customers \cup {c}
            /\ Record(Response("create_customer", c.id, "", 200, FALSE))
            /\ UNCHANGED <<invoices, subscriptions, payments, inserted>>

\* The test seed_if_empty runs before inserting: select(Invoice).first().
SeedGuard == invoices = {}

\* session.commit() of the seed rows fails with IntegrityError when a seed
\* row's primary key is already in its table; the transaction rolls back.
SeedCollides ==
  \/ Ids(SeedInvoices) \cap Ids(invoices) # {}
  \/ Ids(SeedSubscriptions) \cap Ids(subscriptions) # {}
  \/ Ids(SeedCustomers) \cap Ids(customers) # {}

\* POST /api/seed
seed_if_empty ==
  IF ~SeedGuard
    THEN /\ Record(Response("seed", "", "", 200, FALSE))
         /\ UNCHANGED <<storeVars, inserted>>
    ELSE IF SeedCollides
      THEN /\ Record(Response("seed", "", "", 500, FALSE))
           /\ UNCHANGED <<storeVars, inserted>>
      ELSE /\ invoices' = invoices \cup SeedInvoices
           /\ subscriptions' = subscriptions \cup SeedSubscriptions
           /\ customers' = customers \cup SeedCustomers
           /\ inserted' = inserted \cup SeedInvoices
           /\ Record(Response("seed", "", "", 200, TRUE))
           /\ UNCHANGED payments

\* ------------------------------------------------------------------------
\* Interleaved create requests.  A create handler reads the table
\* (session.get), then writes (session.add; session.commit); another
\* request's commit may fall between the two.
\* ------------------------------------------------------------------------
NumClients == 2
Clients == 1..NumClients

IdleRequest ==
  [pc |-> "idle", table |-> "", row |-> <<>>, id |-> "", exists |-> FALSE,
   status |-> 0]

Table(name) == IF name = "invoice" THEN invoices ELSE customers

\* session.get at the top of create_invoice / create_customer.
create_get(p, name, row) ==
  /\ creq[p].pc = "idle"
  /\ creq' = [creq EXCEPT ![p] =
       IF Get(Table(name), row.id) # {}
         THEN [pc |-> "done", table |-> name, row |-> row, id |-> row.id,
               exists |-> TRUE, status |-> 409]
         ELSE [pc |-> "added", table |-> name, row |-> row, id |-> row.id,
               exists |-> FALSE, status |-> 0]]
  /\ UNCHANGED <<storeVars, inserted>>

\* The HTTP status of a request whose session.commit() raised IntegrityError:
\* the handlers do not catch it, so the framework answers 500.
IntegrityErrorStatus == 500

\* session.commit() of the added row: the table's primary key decides.
create_commit(p) ==
  /\ creq[p].pc = "added"
  /\ LET name == creq[p].table
         row == creq[p].row
     IN IF Get(Table(name), row.id) # {}
          THEN /\ creq' = [creq EXCEPT ![p].pc = "done",
                                       ![p].status = IntegrityErrorStatus]
               /\ UNCHANGED <<storeVars, inserted>>
          ELSE /\ creq' = [creq EXCEPT ![p].pc = "done", ![p].status = 200]
               /\ IF name = "invoice"
                    THEN /\ invoices' = invoices \cup {row}
                         /\ inserted' = inserted \cup {row}
                         /\ UNCHANGED customers
                    ELSE /\ customers' = customers \cup {row}
                         /\ UNCHANGED <<invoices, inserted>>
               /\ UNCHANGED <<subscriptions, payments>>


\* ------------------------------------------------------------------------
\* main.py: the command planner
\* ------------------------------------------------------------------------
\* ACTIONS (the name is reserved in TLA+)
Actions ==
  {"click", "type", "none",
   "create_invoice", "delete_invoice", "update_invoice", "filter_invoices",
   "create_customer", "delete_customer", "update_customer",
   "create_subscription", "delete_subscription", "update_subscription"}

\* TARGETS
Targets ==
  {"nav.dashboard", "nav.invoices", "nav.subscriptions", "nav.customers",
   "nav.reports", "nav.settings",
   "field.search", "action.createInvoice", "action.collectPayment"}

\* Longest args.text enumerated, in characters.
MaxTextLen == 2

\* JSON values of the fields action, target and reply: absent from the
\* object, null, a number, or a string.
Missing == [t |-> "missing", s |-> ""]
Null == [t |-> "null", s |-> ""]
Num == [t |-> "num", s |-> ""]
Str(x) == [t |-> "str", s |-> x]

\* JSON values of args.text; a string is a sequence of characters.
TextMissing == [t |-> "missing", s |-> <<>>, n |-> 0]
TextNull == [t |-> "null", s |-> <<>>, n |-> 0]
TextNum(k) == [t |-> "num", s |-> <<>>, n |-> k]
TextStr(cs) == [t |-> "str", s |-> cs, n |-> 0]

Chars == {" ", "a"}
Whitespace == {" "}
Texts == UNION {[1..k -> Chars] : k \in 0..MaxTextLen}

ActionInputs == {Missing, Num, Str("click"), Str("type"), Str("none"), Str("dance")}
TargetInputs ==
  {Missing, Null, Num, Str("field.search"), Str("nav.invoices"), Str("field.name")}
TextInputs ==
  {TextMissing, TextNull, TextNum(0), TextNum(5)} \cup {TextStr(cs) : cs \in Texts}
ArgsInputs ==
  {[t |-> "missing", text |-> TextMissing], [t |-> "null", text |-> TextMissing]}
    \cup {[t |-> "dict", text |-> x] : x \in TextInputs}
ReplyInputs == {Missing, Num, Str(""), Str("searching")}

\* The JSON objects a model reply may hold; extra: it has other keys too.
Objects ==
  [action : ActionInputs, target : TargetInputs, args : ArgsInputs,
   reply : ReplyInputs, extra : BOOLEAN]

\* A model reply is a sequence of chunks of text: prose (no braces), a JSON
\* object, a JSON array holding one object, or a brace-delimited span that
\* is not JSON.
Prose == [kind |-> "prose"]
Broken == [kind |-> "broken"]
ObjectChunk(o) == [kind |-> "object", obj |-> o]
ArrayChunk(o) == [kind |-> "array", obj |-> o]

Contents ==
  {<<Prose>>, <<Broken>>, <<Prose, Broken>>}
    \cup {<<ObjectChunk(o)>> : o \in Objects}
    \cup {<<Prose, ObjectChunk(o), Prose>> : o \in Objects}
    \cup {<<ObjectChunk(o), Prose, ObjectChunk(o)>> : o \in Objects}
    \cup {<<ArrayChunk(o)>> : o \in Objects}

\* _extract_json: the object found in the text, as a set of at most one.
\* json.loads of the whole text gives a dict only when the text is one
\* object; otherwise the pattern \{[\s\S]*\} spans from the first "{" to the
\* last "}", and that span is parsed.
extract_json(text) ==
  IF Len(text) = 1 /\ text[1].kind = "object"
    THEN {text[1].obj}
    ELSE LET braced == {i \in DOMAIN text : text[i].kind # "prose"}
         IN IF Cardinality(braced) = 1
              THEN LET c == text[CHOOSE i \in braced : TRUE]
                   IN IF c.kind \in {"object", "array"} THEN {c.obj} ELSE {}
              ELSE {}

\* A dict is falsy when it has no key.
EmptyObject(o) ==
  /\ o.action = Missing
  /\ o.target = Missing
  /\ o.args.t = "missing"
  /\ o.reply = Missing
  /\ ~o.extra

\* class Command: each field accepts its type or is absent (default).
ValidCommand(o) ==
  /\ o.action.t \in {"missing", "str"}
  /\ o.target.t \in {"missing", "null", "str"}
  /\ o.args.t \in {"missing", "dict"}
  /\ o.reply.t \in {"missing", "str"}

\* Command(**obj) for an object that validates.
Command(o) ==
  [action |-> IF o.action.t = "missing" THEN "none" ELSE o.action.s,
   target |-> IF o.target.t = "str" THEN o.target ELSE Null,
   args |-> [text |-> o.args.text],
   reply |-> IF o.reply.t = "missing" THEN "ok" ELSE o.reply.s]

\* Command(action="none", reply=...)
Fallback(msg) ==
  [action |-> "none", target |-> Null, args |-> [text |-> TextMissing], reply |-> msg]

\* str.strip()
RECURSIVE LStrip(_)
LStrip(cs) ==
  IF cs # <<>> /\ Head(cs) \in Whitespace THEN LStrip(Tail(cs)) ELSE cs

RECURSIVE RStrip(_)
RStrip(cs) ==
  IF cs # <<>> /\ cs[Len(cs)] \in Whitespace
    THEN RStrip(SubSeq(cs, 1, Len(cs) - 1))
    ELSE cs

Strip(cs) == LStrip(RStrip(cs))

\* Python truth value of args.get("text").
Truthy(v) ==
  \/ v.t = "str" /\ v.s # <<>>
  \/ v.t = "num" /\ v.n # 0

Returned(cmd) == [kind |-> "return", exc |-> "", status |-> 200, cmd |-> cmd]
Raised(exc) == [kind |-> "raise", exc |-> exc, status |-> 500, cmd |-> Fallback("")]

\* The guardrails of plan_command for action "type".
TypeGuard(cmd) ==
  LET v == cmd.args.text
  IN IF Truthy(v) /\ v.t # "str"
       THEN Raised("AttributeError")
       ELSE LET text == IF Truthy(v) THEN Strip(v.s) ELSE <<>>
            IN IF cmd.target # Str("field.search") \/ text = <<>>
                 THEN Returned(Fallback("Tell me what to search for."))
                 ELSE Returned([cmd EXCEPT !.args.text = TextStr(text)])

\* plan_command from the model's reply content on.
PlanContent(text) ==
  LET found == extract_json(text)
  IN IF found = {} \/ (\E o \in found : EmptyObject(o))
       THEN Returned(Fallback("I could not understand. Try: open invoices, search apex."))
       ELSE LET o == CHOOSE x \in found : TRUE
            IN IF ~ValidCommand(o)
                 THEN Returned(Fallback("I got an invalid command format. Try again."))
                 ELSE LET cmd == Command(o)
                      IN IF cmd.action \notin Actions
                           THEN Returned(Fallback("That action is not supported."))
                           ELSE IF cmd.target # Null /\ cmd.target.s \notin Targets
                             THEN Returned(Fallback("That UI target is not supported."))
                             ELSE IF cmd.action = "type"
                               THEN TypeGuard(cmd)
                               ELSE Returned(cmd)

\* plan_command
plan_command(key, r) ==
  IF key = ""
    THEN Raised("HTTPException")
    ELSE IF r.status_code >= 400
      THEN Raised("HTTPException")
      ELSE PlanContent(r.content)

NotPlanned == [kind |-> "idle", exc |-> "", status |-> 0, cmd |-> Fallback("")]

StatusCodeInputs == {200, 400}
KeyInputs == {"", "sk-or-key"}

\* ------------------------------------------------------------------------
\* main.py: POST /assistant/voice
\* ------------------------------------------------------------------------
NumVoiceRequests == 2
VoiceRequests == 1..NumVoiceRequests

\* transcribe_audio raises, hears nothing, or returns the words heard.
TranscribeInputs == {"error", "", "search apex"}

\* The remote model's responses enumerated for the voice requests.
VoiceReplies ==
  [status_code : StatusCodeInputs,
   content :
     {<<Prose>>,
      <<ObjectChunk([action |-> Str("click"), target |-> Str("nav.invoices"),
                     args |-> [t |-> "dict", text |-> TextMissing],
                     reply |-> Str("searching"), extra |-> FALSE])>>,
      <<ObjectChunk([action |-> Str("type"), target |-> Str("field.search"),
                     args |-> [t |-> "dict", text |-> TextNum(5)],
                     reply |-> Str("searching"), extra |-> FALSE])>>}]

IdleVoice ==
  [pc |-> "idle", transcript |-> "", status |-> 0, planned |-> FALSE,
   cmd |-> Fallback("")]

\* tempfile.NamedTemporaryFile(delete=False, suffix=ext): the file of
\* request r now exists.
voice_open(r) ==
  /\ vreq[r].pc = "idle"
  /\ files' = files \cup {r}
  /\ vreq' = [vreq EXCEPT ![r].pc = "open"]

\* tmp.write(await file.read()), inside the with block and before the try:
\* when it raises, the with block closes the file and the request ends.
voice_write(r, ok) ==
  /\ vreq[r].pc = "open"
  /\ vreq' = [vreq EXCEPT ![r] =
       IF ok THEN [@ EXCEPT !.pc = "try"]
             ELSE [@ EXCEPT !.pc = "done", !.status = 500]]
  /\ UNCHANGED files

\* The finally clause: os.remove(tmp_path).  Removing the closed file the
\* request itself created is taken to succeed (a failure is swallowed by
\* the except clause and would leave the file).
Removed(r) == files \ {r}

\* transcribe_audio(tmp_path) and the empty-transcript return, in the try.
voice_transcribe(r, heard) ==
  /\ vreq[r].pc = "try"
  /\ IF heard = "error"
       THEN /\ vreq' = [vreq EXCEPT ![r].pc = "done", ![r].status = 500]
            /\ files' = Removed(r)
       ELSE IF heard = ""
         THEN /\ vreq' = [vreq EXCEPT ![r].pc = "done", ![r].status = 200,
                            ![r].cmd = Fallback("I could not hear anything. Try again.")]
              /\ files' = Removed(r)
         ELSE /\ vreq' = [vreq EXCEPT ![r].pc = "plan", ![r].transcript = heard]
              /\ UNCHANGED files

\* cmd = await plan_command(transcript, active_tab) and the return.
voice_plan(r, rep) ==
  /\ vreq[r].pc = "plan"
  /\ LET out == plan_command(OPENROUTER_API_KEY, rep)
     IN vreq' = [vreq EXCEPT ![r].pc = "done", ![r].status = out.status,
                            ![r].planned = TRUE, ![r].cmd = out.cmd]
  /\ files' = Removed(r)

\* ------------------------------------------------------------------------
\* Specifications
\* ------------------------------------------------------------------------
StoreInit ==
  /\ invoices = {}
  /\ customers = {}
  /\ subscriptions = {}
  /\ payments = {}
  /\ inserted = {}
  /\ prev = EmptyStore
  /\ prevOp = "none"
  /\ resp = Response("none", "", "", 0, FALSE)

ConcInit == creq = [p \in Clients |-> IdleRequest]

PlanInit ==
  /\ OPENROUTER_API_KEY = "sk-or-key"
  /\ reply = [status_code |-> 200, content |-> <<Prose>>]
  /\ outcome = NotPlanned

VoiceInit ==
  /\ vreq = [r \in VoiceRequests |-> IdleVoice]
  /\ files = {}

\* The billing routes, one request at a time.
Init == StoreInit /\ ConcInit /\ PlanInit /\ VoiceInit

CreateInvoice ==
  /\ \E inv \in InvoiceInputs : create_invoice(inv)
  /\ UNCHANGED <<creq, planVars, voiceVars>>

PayInvoice ==
  /\ \E id \in PayIdInputs, m \in MethodInputs : pay_invoice(id, m)
  /\ UNCHANGED <<creq, planVars, voiceVars>>

CreateCustomer ==
  /\ \E c \in CustomerInputs : create_customer(c)
  /\ UNCHANGED <<creq, planVars, voiceVars>>

Seed ==
  /\ seed_if_empty
  /\ UNCHANGED <<creq, planVars, voiceVars>>

Next == CreateInvoice \/ PayInvoice \/ CreateCustomer \/ Seed

Spec == Init /\ [][Next]_vars

\* Create requests of several clients, interleaved.
CreateGet ==
  /\ \E p \in Clients :
       \/ \E inv \in InvoiceInputs : create_get(p, "invoice", inv)
       \/ \E c \in CustomerInputs : create_get(p, "customer", c)
  /\ UNCHANGED <<prev, prevOp, resp, planVars, voiceVars>>

CreateCommit ==
  /\ \E p \in Clients : create_commit(p)
  /\ UNCHANGED <<prev, prevOp, resp, planVars, voiceVars>>

NextConc == CreateGet \/ CreateCommit

SpecConc == Init /\ [][NextConc]_vars

\* plan_command on every key, status and reply content enumerated.
InitPlan ==
  /\ StoreInit /\ ConcInit /\ VoiceInit
  /\ OPENROUTER_API_KEY \in KeyInputs
  /\ reply \in [status_code : StatusCodeInputs, content : Contents]
  /\ outcome = NotPlanned

Plan ==
  /\ outcome = NotPlanned
  /\ outcome' = plan_command(OPENROUTER_API_KEY, reply)
  /\ UNCHANGED <<storeVars, histVars, creq, OPENROUTER_API_KEY, reply, voiceVars>>

NextPlan == Plan

SpecPlan == InitPlan /\ [][NextPlan]_vars

\* Voice requests, interleaved at their awaits.
InitVoice ==
  /\ StoreInit /\ ConcInit /\ VoiceInit
  /\ OPENROUTER_API_KEY \in KeyInputs
  /\ reply = [status_code |-> 200, content |-> <<Prose>>]
  /\ outcome = NotPlanned

VoiceOpen ==
  /\ \E r \in VoiceRequests : voice_open(r)
  /\ UNCHANGED <<storeVars, histVars, creq, planVars>>

VoiceWrite ==
  /\ \E r \in VoiceRequests, ok \in BOOLEAN : voice_write(r, ok)
  /\ UNCHANGED <<storeVars, histVars, creq, planVars>>

VoiceTranscribe ==
  /\ \E r \in VoiceRequests, heard \in TranscribeInputs : voice_transcribe(r, heard)
  /\ UNCHANGED <<storeVars, histVars, creq, planVars>>

VoicePlan ==
  /\ \E r \in VoiceRequests, rep \in VoiceReplies : voice_plan(r, rep)
  /\ UNCHANGED <<storeVars, histVars, creq, planVars>>

NextVoice == VoiceOpen \/ VoiceWrite \/ VoiceTranscribe \/ VoicePlan

SpecVoice == InitVoice /\ [][NextVoice]_vars

\* ------------------------------------------------------------------------
\* Properties of the billing routes (specification Spec)
\* ------------------------------------------------------------------------
PrevInvoice == CHOOSE r \in prev.invoices : r.id = resp.id

\* C1: pay_invoice on an identifier that exists answers 200 and, in the one
\* commit, sets that invoice's status to "paid" and its method to M and adds
\* exactly one Payment (that invoice_id, the invoice's amount, method M);
\* no other invoice, no existing Payment and no other table changes.  Also
\* when the invoice was already paid.
C1_PayExisting ==
  (resp.op = "pay_invoice" /\ \E r \in prev.invoices : r.id = resp.id) =>
    LET old == PrevInvoice
        added == payments \ prev.payments
    IN /\ resp.status = 200
       /\ invoices = (prev.invoices \ {old}) \cup
                       {[old EXCEPT !.status = "paid", !.method = resp.method]}
       /\ prev.payments \subseteq payments
       /\ Cardinality(added) = 1
       /\ \A p \in added :
            /\ p.invoice_id = resp.id
            /\ p.amount = old.amount
            /\ p.method = resp.method
       /\ customers = prev.customers
       /\ subscriptions = prev.subscriptions

\* A second successful pay of an invoice, with another method than the first.
C1_Witness ==
  /\ resp.op = "pay_invoice"
  /\ resp.status = 200
  /\ \E r \in prev.invoices : r.id = resp.id /\ r.status = "paid" /\ r.method # resp.method
  /\ \E p \in prev.payments : p.invoice_id = resp.id
  /\ Cardinality(invoices) > 1

\* C2: pay_invoice on an identifier with no invoice answers 404 and leaves
\* the store as it was.
C2_PayMissing ==
  (resp.op = "pay_invoice" /\ ~\E r \in prev.invoices : r.id = resp.id) =>
    /\ resp.status = 404
    /\ Store = prev

\* A 404 from a store that holds invoices and payments.
C2_Witness ==
  /\ resp.op = "pay_invoice"
  /\ resp.status = 404
  /\ invoices # {}
  /\ payments # {}

\* C3: create_invoice (create_customer) with an identifier already in the
\* invoice (customer) table answers 409, and the store is as it was.
C3_CreateExisting ==
  (\/ resp.op = "create_invoice" /\ resp.id \in Ids(prev.invoices)
   \/ resp.op = "create_customer" /\ resp.id \in Ids(prev.customers)) =>
    /\ resp.status = 409
    /\ Store = prev

\* A 409 on an invoice that has been paid since it was inserted.
C3_Witness ==
  /\ resp.op = "create_invoice"
  /\ resp.status = 409
  /\ \E p \in payments : p.invoice_id = resp.id
  /\ customers # {}

PaymentsOf(id) == {p \in payments : p.invoice_id = id}
LastPayment(id) == CHOOSE p \in PaymentsOf(id) : \A q \in PaymentsOf(id) : q.id <= p.id

\* C5 as claimed: every invoice whose status is "paid" is referenced by at
\* least one Payment and carries the method of the last one.
C5_PaidOnlyByPay ==
  \A inv \in invoices :
    inv.status = "paid" =>
      /\ PaymentsOf(inv.id) # {}
      /\ inv.method = LastPayment(inv.id).method

\* C5 amended: an invoice a Payment references (pay_invoice succeeded on it)
\* is its inserted row with status "paid" and the method of the last pay;
\* every other invoice is exactly its inserted row, so a paid invoice
\* without a Payment was inserted with status "paid".
C5_PaidByPayOrInserted ==
  \A inv \in invoices :
    \E orig \in inserted :
      /\ orig.id = inv.id
      /\ IF PaymentsOf(inv.id) = {}
           THEN inv = orig
           ELSE inv = [orig EXCEPT !.status = "paid",
                                   !.method = LastPayment(inv.id).method]

\* One invoice paid twice with two methods, next to a paid invoice that no
\* Payment references.
C5_Witness ==
  /\ \E inv \in invoices :
       /\ Cardinality(PaymentsOf(inv.id)) = 2
       /\ \E p, q \in PaymentsOf(inv.id) : p.method # q.method
       /\ \E orig \in inserted : orig.id = inv.id /\ orig.status # "paid"
  /\ \E inv \in invoices : inv.status = "paid" /\ PaymentsOf(inv.id) = {}

\* C6 as claimed: after two seed_if_empty calls in a row no table holds two
\* rows with one identifier, the second call answered seeded=false, and the
\* second call left the store as the first left it.
C6_SeedTwice ==
  (prevOp = "seed" /\ resp.op = "seed") =>
    /\ UniqueIds(invoices) /\ UniqueIds(customers)
    /\ UniqueIds(subscriptions) /\ UniqueIds(payments)
    /\ resp.status = 200
    /\ ~resp.seeded
    /\ Store = prev

DemoDataset ==
  [invoices |-> SeedInvoices, customers |-> SeedCustomers,
   subscriptions |-> SeedSubscriptions, payments |-> {}]

\* C7 as claimed: seed_if_empty inserts the demo dataset and answers
\* seeded=true when every table was empty; in every other state it answers
\* 200 with seeded=false and changes nothing.
C7_SeedIffEmpty ==
  resp.op = "seed" =>
    IF prev = EmptyStore
      THEN resp.status = 200 /\ resp.seeded /\ Store = DemoDataset
      ELSE resp.status = 200 /\ ~resp.seeded /\ Store = prev

\* ------------------------------------------------------------------------
\* Interleaved creates (specification SpecConc)
\* ------------------------------------------------------------------------
\* C4 as claimed: of two create requests for one table and one new
\* identifier that both ran the existence check before either committed,
\* one answers 200, the other 409, and the table holds one row with that
\* identifier.
C4_RaceGivesConflict ==
  \A p, q \in Clients :
    (/\ p # q
     /\ creq[p].pc = "done" /\ creq[q].pc = "done"
     /\ creq[p].table = creq[q].table /\ creq[p].id = creq[q].id
     /\ ~creq[p].exists /\ ~creq[q].exists) =>
      /\ {creq[p].status, creq[q].status} = {200, 409}
      /\ Cardinality(Get(Table(creq[p].table), creq[p].id)) = 1

\* ------------------------------------------------------------------------
\* Properties of the planner (specification SpecPlan)
\* ------------------------------------------------------------------------
\* The remote call returned a success status and plan_command has run.
ModelAnswered ==
  /\ outcome # NotPlanned
  /\ OPENROUTER_API_KEY # ""
  /\ reply.status_code < 400

\* The object plan_command works on, when the reply holds one.
Candidate == CHOOSE o \in extract_json(reply.content) : TRUE

\* The replies the claim names: prose, wrong field types, action "type"
\* without a string args.text, an action or a target outside its set.
Malformed ==
  \/ extract_json(reply.content) = {}
  \/ /\ extract_json(reply.content) # {}
     /\ \/ ~ValidCommand(Candidate)
        \/ Candidate.action = Str("type") /\ Candidate.args.text.t # "str"
        \/ Candidate.action.t = "str" /\ Candidate.action.s \notin Actions
        \/ Candidate.target.t = "str" /\ Candidate.target.s \notin Targets

\* C8 as claimed: once the remote call succeeded plan_command never raises;
\* every Command it returns has its action in the action set and its target
\* null or in the target set; for a malformed reply the Command is "none"
\* with a non-empty reply.
C8_NeverRaises ==
  ModelAnswered =>
    /\ outcome.kind = "return"
    /\ outcome.cmd.action \in Actions
    /\ outcome.cmd.target = Null \/ outcome.cmd.target.s \in Targets
    /\ Malformed => outcome.cmd.action = "none" /\ outcome.cmd.reply # ""

\* The candidate may be returned as a "type" Command.
TypeAccepted(o) ==
  /\ o.target = Str("field.search")
  /\ o.args.text.t = "str"
  /\ Strip(o.args.text.s) # <<>>

\* C9 as claimed: a well-typed candidate with action "type" is returned,
\* args.text trimmed and nothing else changed, when its target is
\* "field.search" and args.text is a string that is not empty once trimmed;
\* with any other target or text it is replaced by the "none" fallback.
C9_TypeCandidate ==
  (/\ ModelAnswered
   /\ extract_json(reply.content) # {}
   /\ ValidCommand(Candidate)
   /\ Candidate.action = Str("type")) =>
     /\ outcome.kind = "return"
     /\ IF TypeAccepted(Candidate)
          THEN outcome.cmd = [Command(Candidate) EXCEPT
                                !.args.text = TextStr(Strip(Candidate.args.text.s))]
          ELSE outcome.cmd.action = "none"

\* ------------------------------------------------------------------------
\* Properties of the voice endpoint (specification SpecVoice)
\* ------------------------------------------------------------------------
\* C10 as claimed: when a voice request has ended, on any exit path, its
\* temporary audio file no longer exists.
C10_TempFileRemoved ==
  \A r \in VoiceRequests : vreq[r].pc = "done" => r \notin files
====
